---- MODULE Spec2Model ----
(***************************************************************************)
(* Model of the v_transactions_net migration of zcash_client_sqlite        *)
(* (wallet/init/migrations/v_transactions_net.rs): the change backfill of  *)
(* sent_notes, the v_tx_events view and the v_transactions view, run by    *)
(* the migration executor inside one database transaction.                 *)
(*                                                                         *)
(* Tables are sets of rows (records).  A nullable SQL column holds NULL or *)
(* Some(v), as the Option<..> values the tests read back.  SQL UNION and   *)
(* EXCEPT work on sets of rows, which is what TLA+ sets are; GROUP BY and  *)
(* the aggregates are computed per group.                                  *)
(***************************************************************************)
EXTENDS Integers, Sequences, FiniteSets, TLC

\* ------------------------------------------------------------------ bounds
\* Total number of rows the fixture puts in received_notes and sent_notes.
MaxNotes == 2

\* ------------------------------------------------------------ column values
NULL == <<>>
Some(v) == <<v>>

\* Accounts created by the fixture (accounts 0 and 1).
Accounts == {0, 1}
\* Transactions tx0 and tx1; a note received in a transaction can be spent by
\* a later one.
Txs == {0, 1}
\* Output positions within a transaction.
OutputIndexes == {0, 1}
\* Note values in zatoshis.  Only received values are summed; the value of
\* a sent note is compared with the value of the received note of the same
\* output, which it can equal or not.
Values == {1, 2}
SentValues == {2}
\* A memo column is NULL or holds the memo bytes (X'61' in the fixture).
Memos == {NULL, Some("a")}
\* pool_code(PoolType::Sapling), the only pool of received_notes.
SaplingPool == 2
\* The code of a pool other than Sapling: sent_notes has rows of other pools
\* (outputs to transparent recipients); the code's value is not in this file.
TransparentPool == 0
Pools == {TransparentPool, SaplingPool}
\* Recipient of a sent note of account a: an external address, or the wallet
\* itself (to_account set, no address).  No statement of up reads the
\* to_account of an existing row, so the model uses the sending account there.
Recipients(a) == {[to_account |-> NULL, to_address |-> Some("addra")],
                  [to_account |-> Some(a), to_address |-> NULL]}

\* Identifiers of the migrations in the registry.
add_transaction_views_MIGRATION_ID == "add_transaction_views"
MIGRATION_ID == "v_transactions_net"

VARIABLES
    received_notes,   \* table received_notes
    sent_notes,       \* table sent_notes
    views,            \* views of the schema: set of <<name, defining migration>>
    applied,          \* migrations recorded as applied
    pc,               \* "fixture": store being filled; "migrated": up has run; "reverted": down has run
    result,           \* what the run of the migration returned
    executed,         \* statements of up executed by the run, in order
    failed,           \* the statement of up that failed in the run (0: none)
    backfill_log      \* results of the standalone executions of the backfill insert

vars == <<received_notes, sent_notes, views, applied, pc, result, executed,
          failed, backfill_log>>

\* ------------------------------------------------------------ store fixture
\* UNIQUE (tx, output_index) of received_notes.
ReceivedKeyFree(tx, oi) ==
    \A r \in received_notes : ~(r.tx = tx /\ r.output_index = oi)

\* UNIQUE (tx, output_pool, output_index) of sent_notes.
SentKeyFree(sent, tx, pool, oi) ==
    \A s \in sent : ~(s.tx = tx /\ s.output_pool = pool /\ s.output_index = oi)

RowCount == Cardinality(received_notes) + Cardinality(sent_notes)

\* INSERT INTO received_notes (tx, output_index, account, ..., value, ..., is_change)
InsertReceivedNote ==
    /\ pc = "fixture"
    /\ backfill_log = <<>>
    /\ RowCount < MaxNotes
    /\ \E tx \in Txs, oi \in OutputIndexes, a \in Accounts, v \in Values,
          c \in BOOLEAN, m \in Memos :
          /\ ReceivedKeyFree(tx, oi)
          /\ received_notes' = received_notes \cup
                {[tx |-> tx, output_index |-> oi, account |-> a, value |-> v,
                  is_change |-> c, memo |-> m, spent |-> NULL]}
    /\ UNCHANGED <<sent_notes, views, applied, pc, result, executed, failed,
                   backfill_log>>

\* UPDATE received_notes SET spent = :spender WHERE tx = :tx
MarkSpent ==
    /\ pc = "fixture"
    /\ backfill_log = <<>>
    /\ \E tx \in Txs, spender \in Txs :
          /\ tx < spender
          /\ \E r \in received_notes : r.tx = tx /\ r.spent # Some(spender)
          /\ received_notes' =
                {IF r.tx = tx THEN [r EXCEPT !.spent = Some(spender)] ELSE r
                    : r \in received_notes}
    /\ UNCHANGED <<sent_notes, views, applied, pc, result, executed, failed,
                   backfill_log>>

\* INSERT INTO sent_notes (tx, output_pool, output_index, from_account,
\*                         to_account, to_address, value, memo)
InsertSentNote ==
    /\ pc = "fixture"
    /\ backfill_log = <<>>
    /\ RowCount < MaxNotes
    /\ \E tx \in Txs, pool \in Pools, oi \in OutputIndexes, a \in Accounts,
          v \in SentValues, m \in Memos :
       \E rcpt \in Recipients(a) :
          /\ SentKeyFree(sent_notes, tx, pool, oi)
          /\ sent_notes' = sent_notes \cup
                {[tx |-> tx, output_pool |-> pool, output_index |-> oi,
                  from_account |-> a, to_account |-> rcpt.to_account,
                  to_address |-> rcpt.to_address, value |-> v, memo |-> m]}
    /\ UNCHANGED <<received_notes, views, applied, pc, result, executed, failed,
                   backfill_log>>

\* ------------------------------------------------- up: the backfill insert
\* SELECT tx, :output_pool, output_index, account, account, value
\* FROM received_notes WHERE received_notes.is_change
change_rows(recv) ==
    {[tx |-> r.tx, output_pool |-> SaplingPool, output_index |-> r.output_index,
      from_account |-> r.account, to_account |-> r.account, value |-> r.value]
        : r \in {x \in recv : x.is_change}}

\* SELECT tx, :output_pool, output_index, from_account, from_account, value
\* FROM sent_notes
existing_rows(sent) ==
    {[tx |-> s.tx, output_pool |-> SaplingPool, output_index |-> s.output_index,
      from_account |-> s.from_account, to_account |-> s.from_account,
      value |-> s.value] : s \in sent}

\* backfill_select without the EXCEPT branch.
backfill_select_without_except(recv, sent) == change_rows(recv)

\* ... EXCEPT ...: the rows the INSERT adds.
backfill_select(recv, sent) == change_rows(recv) \ existing_rows(sent)

\* The row of sent_notes an inserted tuple becomes: the columns the INSERT
\* does not name (to_address, memo) are NULL.
inserted_row(x) ==
    [tx |-> x.tx, output_pool |-> x.output_pool, output_index |-> x.output_index,
     from_account |-> x.from_account, to_account |-> Some(x.to_account),
     to_address |-> NULL, value |-> x.value, memo |-> NULL]

\* The INSERT violates UNIQUE (tx, output_pool, output_index) of sent_notes.
backfill_conflict(recv, sent) ==
    \E x \in backfill_select(recv, sent) :
        ~SentKeyFree(sent, x.tx, x.output_pool, x.output_index)

\* transaction.execute("INSERT INTO sent_notes ... EXCEPT ..."): the table
\* after the statement and what execute returns (the number of rows added).
execute_backfill(recv, sent) ==
    IF backfill_conflict(recv, sent)
    THEN [sent |-> sent, ok |-> FALSE, rows |-> 0]
    ELSE [sent |-> sent \cup {inserted_row(x) : x \in backfill_select(recv, sent)},
          ok |-> TRUE,
          rows |-> Cardinality(backfill_select(recv, sent))]

\* ------------------------------------------------- up: statement by statement
\* The statements of up, in the order of the source.
StmtBackfill == 1            \* INSERT INTO sent_notes ...
StmtDropReceived == 2        \* DROP VIEW v_tx_received
StmtDropSent == 3            \* DROP VIEW v_tx_sent
StmtCreateEvents == 4        \* CREATE VIEW v_tx_events
StmtDropTransactions == 5    \* DROP VIEW v_transactions
StmtCreateTransactions == 6  \* CREATE VIEW v_transactions
NumStatements == 6

ViewExists(vs, name) == \E v \in vs : v[1] = name

\* DROP VIEW name: fails when there is no such view.
drop_view(t, name) ==
    IF ViewExists(t.views, name)
    THEN [t EXCEPT !.views = {v \in t.views : v[1] # name}]
    ELSE [t EXCEPT !.ok = FALSE]

\* CREATE VIEW name: fails when the view exists; the view is this migration's.
create_view(t, name) ==
    IF ViewExists(t.views, name)
    THEN [t EXCEPT !.ok = FALSE]
    ELSE [t EXCEPT !.views = t.views \cup {<<name, MIGRATION_ID>>}]

\* Whether statement k succeeds in the transaction t, and the tables and
\* views it leaves.
statement_ok(t, k) ==
    IF k = StmtBackfill THEN execute_backfill(t.received, t.sent).ok
    ELSE IF k = StmtDropReceived THEN drop_view(t, "v_tx_received").ok
    ELSE IF k = StmtDropSent THEN drop_view(t, "v_tx_sent").ok
    ELSE IF k = StmtCreateEvents THEN create_view(t, "v_tx_events").ok
    ELSE IF k = StmtDropTransactions THEN drop_view(t, "v_transactions").ok
    ELSE create_view(t, "v_transactions").ok

statement_sent(t, k) ==
    IF k = StmtBackfill THEN execute_backfill(t.received, t.sent).sent ELSE t.sent

statement_views(t, k) ==
    IF k = StmtDropReceived THEN drop_view(t, "v_tx_received").views
    ELSE IF k = StmtDropSent THEN drop_view(t, "v_tx_sent").views
    ELSE IF k = StmtCreateEvents THEN create_view(t, "v_tx_events").views
    ELSE IF k = StmtDropTransactions THEN drop_view(t, "v_transactions").views
    ELSE IF k = StmtCreateTransactions THEN create_view(t, "v_transactions").views
    ELSE t.views

\* One statement run in the transaction t.  fault is the statement at which
\* the storage engine reports an error of its own (0: never); a statement
\* that fails changes nothing.  t.failed keeps the first statement that
\* failed, t.executed every statement run.
run_statement(t, k, fault) ==
    IF k # fault /\ statement_ok(t, k)
    THEN [received |-> t.received, sent |-> statement_sent(t, k),
          views |-> statement_views(t, k),
          executed |-> Append(t.executed, k), failed |-> t.failed, ok |-> TRUE]
    ELSE [received |-> t.received, sent |-> t.sent, views |-> t.views,
          executed |-> Append(t.executed, k),
          failed |-> IF t.failed = 0 THEN k ELSE t.failed, ok |-> FALSE]

\* transaction.execute_batch("a; b"): the statements in order, stopping at the
\* first that fails.
RECURSIVE execute_batch(_, _, _)
execute_batch(t, stmts, fault) ==
    IF stmts = <<>> THEN t
    ELSE LET t1 == run_statement(t, Head(stmts), fault)
         IN  IF t1.ok THEN execute_batch(t1, Tail(stmts), fault) ELSE t1

\* up with the result of the first execute_batch dropped instead of
\* propagated by `?`.
up_unchecked_drop(t0, fault) ==
    LET t1 == execute_batch(t0, <<StmtBackfill>>, fault) IN
    IF ~t1.ok THEN t1 ELSE
    LET t2 == execute_batch(t1, <<StmtDropReceived, StmtDropSent>>, fault) IN
    LET t3 == execute_batch(t2, <<StmtCreateEvents>>, fault) IN
    IF ~t3.ok THEN t3 ELSE
    execute_batch(t3, <<StmtDropTransactions, StmtCreateTransactions>>, fault)

\* Migration::up.  Every call is followed by `?`: an error ends up at once.
up(t0, fault) ==
    LET t1 == execute_batch(t0, <<StmtBackfill>>, fault) IN
    IF ~t1.ok THEN t1 ELSE
    LET t2 == execute_batch(t1, <<StmtDropReceived, StmtDropSent>>, fault) IN
    IF ~t2.ok THEN t2 ELSE
    LET t3 == execute_batch(t2, <<StmtCreateEvents>>, fault) IN
    IF ~t3.ok THEN t3 ELSE
    execute_batch(t3, <<StmtDropTransactions, StmtCreateTransactions>>, fault)

\* Migration::dependencies
dependencies == {add_transaction_views_MIGRATION_ID}

\* ------------------------------------------------------ migration executor
\* The transaction the executor opens on the committed store.
begin_transaction ==
    [received |-> received_notes, sent |-> sent_notes, views |-> views,
     executed |-> <<>>, failed |-> 0, ok |-> TRUE]

\* The executor applies the pending migration: up runs in a transaction that
\* is committed, with the migration recorded as applied, when up returns Ok
\* and rolled back when it returns an error.
RunMigration(fault) ==
    /\ pc = "fixture"
    /\ backfill_log = <<>>
    /\ MIGRATION_ID \notin applied
    /\ dependencies \subseteq applied
    /\ \E t \in {up(begin_transaction, fault)} :
         /\ executed' = t.executed
         /\ failed' = t.failed
         /\ IF t.ok
            THEN /\ result' = "Ok"
                 /\ sent_notes' = t.sent
                 /\ views' = t.views
                 /\ applied' = applied \cup {MIGRATION_ID}
            ELSE /\ result' = "Err"
                 /\ UNCHANGED <<sent_notes, views, applied>>
    /\ pc' = "migrated"
    /\ UNCHANGED <<received_notes, backfill_log>>

\* init_wallet_db_internal(.., &[MIGRATION_ID]) with a storage engine that
\* reports no error of its own.
Migrate == RunMigration(0)

\* The same run when the storage engine fails at one of the statements.
MigrateWithFault == \E fault \in 1..NumStatements : RunMigration(fault)

\* Migration::down: the body is panic!("Cannot revert this migration."), so
\* the call executes no statement and does not return a Result to its caller.
down(t) == [t EXCEPT !.ok = FALSE, !.outcome = "panic"]

\* The executor reverts the applied migration on a rollback request: down
\* runs in a transaction on the committed store.  A call that returns Ok is
\* committed and the migration is no longer recorded as applied; one that
\* returns an error or panics leaves the transaction uncommitted.
Revert ==
    /\ pc = "migrated"
    /\ MIGRATION_ID \in applied
    /\ \E t \in {down([sent |-> sent_notes, views |-> views, ok |-> TRUE,
                       outcome |-> "Ok"])} :
         /\ result' = t.outcome
         /\ IF t.ok
            THEN /\ sent_notes' = t.sent
                 /\ views' = t.views
                 /\ applied' = applied \ {MIGRATION_ID}
            ELSE UNCHANGED <<sent_notes, views, applied>>
    /\ pc' = "reverted"
    /\ UNCHANGED <<received_notes, executed, failed, backfill_log>>

\* The backfill insert executed on its own, outside up (at most twice).
MaxBackfillRuns == 2
ExecuteBackfill ==
    /\ pc = "fixture"
    /\ Len(backfill_log) < MaxBackfillRuns
    /\ LET b == execute_backfill(received_notes, sent_notes) IN
         /\ sent_notes' = b.sent
         /\ backfill_log' = Append(backfill_log, [ok |-> b.ok, rows |-> b.rows])
    /\ UNCHANGED <<received_notes, views, applied, pc, result, executed, failed>>

\* ------------------------------------------------------------ v_tx_events
\* FROM received_notes LEFT JOIN sent_notes ON the same tx and output_index:
\* one row for every matching sent note, or one with NULL sent columns.
events_from_received(recv, sent) ==
    UNION {
        LET m == {s \in sent : s.tx = r.tx /\ s.output_index = r.output_index}
            from == IF m = {} THEN {NULL} ELSE {Some(s.from_account) : s \in m}
        IN  {[id_tx |-> r.tx, output_index |-> r.output_index,
              from_account |-> f, to_account |-> Some(r.account),
              to_address |-> NULL, value |-> r.value,
              is_change |-> r.is_change, memo |-> r.memo] : f \in from}
        : r \in recv}

\* FROM sent_notes LEFT JOIN received_notes ON the same tx and output_index
\* WHERE received_notes.is_change IS NULL OR received_notes.is_change = 0
events_from_sent(recv, sent) ==
    UNION {
        LET m == {r \in recv : r.tx = s.tx /\ r.output_index = s.output_index}
            to == IF m = {} THEN {NULL}
                  ELSE {Some(r.account) : r \in {x \in m : ~x.is_change}}
        IN  {[id_tx |-> s.tx, output_index |-> s.output_index,
              from_account |-> Some(s.from_account), to_account |-> a,
              to_address |-> s.to_address, value |-> s.value,
              is_change |-> FALSE, memo |-> s.memo] : a \in to}
        : s \in sent}

\* CREATE VIEW v_tx_events AS SELECT ... UNION SELECT ...
v_tx_events(recv, sent) ==
    events_from_received(recv, sent) \cup events_from_sent(recv, sent)

\* ----------------------------------------------------------- v_transactions
\* SUM(col) over a set of rows.
RECURSIVE SUM(_, _)
SUM(rows, col) ==
    IF rows = {} THEN 0
    ELSE LET r == CHOOSE x \in rows : TRUE
         IN  r[col] + SUM(rows \ {r}, col)

\* notes whose second SELECT copies the change flag of the spent note instead
\* of selecting 0.
notes_spent_keeps_change(recv) ==
    {[account_id |-> r.account, id_tx |-> r.tx, value |-> r.value,
      is_change |-> IF r.is_change THEN 1 ELSE 0,
      received_count |-> IF r.is_change THEN 0 ELSE 1,
      memo_present |-> IF r.memo = NULL THEN 0 ELSE 1] : r \in recv}
    \cup
    {[account_id |-> r.account, id_tx |-> r.spent[1], value |-> 0 - r.value,
      is_change |-> IF r.is_change THEN 1 ELSE 0, received_count |-> 0,
      memo_present |-> 0]
        : r \in {x \in recv : x.spent # NULL}}

\* The notes CTE: the received notes, UNION the notes spent, with the value
\* negated, under the transaction that spends them.
notes(recv) ==
    {[account_id |-> r.account, id_tx |-> r.tx, value |-> r.value,
      is_change |-> IF r.is_change THEN 1 ELSE 0,
      received_count |-> IF r.is_change THEN 0 ELSE 1,
      memo_present |-> IF r.memo = NULL THEN 0 ELSE 1] : r \in recv}
    \cup
    {[account_id |-> r.account, id_tx |-> r.spent[1], value |-> 0 - r.value,
      is_change |-> 0, received_count |-> 0, memo_present |-> 0]
        : r \in {x \in recv : x.spent # NULL}}

\* counted_sent without the NOT IN filter: change outputs are counted too.
counted_sent_with_change(recv, sent) == sent

\* WHERE (sent_notes.tx, sent_notes.output_index) NOT IN
\*       (SELECT tx, output_index FROM received_notes WHERE is_change = 1)
counted_sent(recv, sent) ==
    {s \in sent : ~\E r \in recv : /\ r.is_change
                                   /\ r.tx = s.tx
                                   /\ r.output_index = s.output_index}

\* The sent_note_counts CTE: one row per (from_account, tx) that has a counted
\* sent note.  The rows of sent_notes have distinct id_note.
sent_note_counts(recv, sent) ==
    {[account_id |-> g[1], id_tx |-> g[2],
      sent_notes |-> Cardinality({s \in counted_sent(recv, sent) :
                                    s.from_account = g[1] /\ s.tx = g[2]}),
      memo_count |-> Cardinality({s \in counted_sent(recv, sent) :
                                    /\ s.from_account = g[1] /\ s.tx = g[2]
                                    /\ s.memo # NULL})]
        : g \in {<<s.from_account, s.tx>> : s \in counted_sent(recv, sent)}}

\* MAX(COALESCE(col, 0)) over the LEFT JOIN of a group with sent_note_counts.
max_coalesce(counts, a, tx, col) ==
    LET m == {c \in counts : c.account_id = a /\ c.id_tx = tx}
    IN  IF m = {} THEN 0 ELSE (CHOOSE c \in m : TRUE)[col]

\* CREATE VIEW v_transactions: FROM transactions JOIN notes ... GROUP BY
\* notes.account_id, transactions.id_tx.  Every transaction a note names is in
\* the transactions table; the joins with blocks and blocks_max_height add no
\* row and drop none.
v_transactions(recv, sent) ==
    {LET grp == {n \in notes(recv) : n.account_id = g[1] /\ n.id_tx = g[2]}
         counts == sent_note_counts(recv, sent)
     IN  [account_id |-> g[1], id_tx |-> g[2],
          net_transfer |-> SUM(grp, "value"),
          has_change |-> SUM(grp, "is_change") > 0,
          sent_note_count |-> max_coalesce(counts, g[1], g[2], "sent_notes"),
          received_note_count |-> SUM(grp, "received_count"),
          memo_count |-> SUM(grp, "memo_present")
                            + max_coalesce(counts, g[1], g[2], "memo_count")]
        : g \in {<<n.account_id, n.id_tx>> : n \in notes(recv)}}

\* The views the wallet queries once the migration is applied.
Migrated == pc = "migrated" /\ result = "Ok"
Events == v_tx_events(received_notes, sent_notes)
Transactions == v_transactions(received_notes, sent_notes)

\* ------------------------------------------- properties of v_transactions
\* The received notes account a owns in transaction tx, and the notes of a
\* that tx spends.
ReceivedIn(a, tx) == {r \in received_notes : r.account = a /\ r.tx = tx}
SpentIn(a, tx) == {r \in received_notes : r.account = a /\ r.spent = Some(tx)}
\* The output (tx, oi) is that of a change-flagged received note.
IsChangeOutput(tx, oi) ==
    \E r \in received_notes : r.is_change /\ r.tx = tx /\ r.output_index = oi
\* The sent notes of account a in tx that are not change outputs.
SentIn(a, tx) ==
    {s \in sent_notes : /\ s.from_account = a /\ s.tx = tx
                        /\ ~IsChangeOutput(s.tx, s.output_index)}

\* C1: in v_transactions, net_transfer of every (account, transaction) row is
\* the sum of the values of the account's received notes in the transaction
\* minus the sum of the values of its notes the transaction spends, every note
\* counted separately.
C1_NetTransferCountsEveryNote ==
    Migrated =>
        \A row \in Transactions :
            row.net_transfer =
                SUM(ReceivedIn(row.account_id, row.id_tx), "value")
                    - SUM(SpentIn(row.account_id, row.id_tx), "value")

\* C4: in v_transactions, sent_note_count of every (account, transaction) row
\* is the number of sent notes from the account in the transaction whose
\* (transaction, output index) is not the output of a change-flagged received
\* note; a change output never contributes and a row of an account with no
\* sent note has 0.
C4_SentNoteCountExcludesChange ==
    Migrated =>
        \A row \in Transactions :
            row.sent_note_count = Cardinality(SentIn(row.account_id, row.id_tx))

\* C4 witness: a row that counts a sent note while the same account has, in
\* the same transaction, a sent note on a change output that is not counted.
C4_Witness ==
    /\ Migrated
    /\ \E row \in Transactions :
          /\ row.sent_note_count = 1
          /\ \E s \in sent_notes :
                /\ s.from_account = row.account_id /\ s.tx = row.id_tx
                /\ IsChangeOutput(s.tx, s.output_index)

\* C5: in v_transactions, received_note_count of every (account, transaction)
\* row is the number of received notes of the account in the transaction that
\* are not change-flagged, every such note counted.
C5_ReceivedNoteCountCountsEveryNote ==
    Migrated =>
        \A row \in Transactions :
            row.received_note_count =
                Cardinality({r \in ReceivedIn(row.account_id, row.id_tx) :
                                ~r.is_change})

\* An account is involved in a transaction: it owns a received note in it, it
\* owns a note the transaction spends, or it is the sender of a sent note in it.
Involved(a, tx) ==
    \/ ReceivedIn(a, tx) # {}
    \/ SpentIn(a, tx) # {}
    \/ \E s \in sent_notes : s.from_account = a /\ s.tx = tx

\* C6: v_transactions has exactly one row for every (account, transaction)
\* pair in which the account is involved, and no row for any other pair.
C6_OneRowPerInvolvedPair ==
    Migrated =>
        \A a \in Accounts, tx \in Txs :
            Cardinality({row \in Transactions :
                            row.account_id = a /\ row.id_tx = tx})
                = IF Involved(a, tx) THEN 1 ELSE 0

\* C7: in v_transactions, memo_count of every (account, transaction) row is
\* the number of memos on the account's non-change received notes in the
\* transaction plus the number of memos on its sent notes in the transaction
\* that are not change outputs; a memo on a change-flagged note is not counted.
C7_MemoCountExcludesChange ==
    Migrated =>
        \A row \in Transactions :
            row.memo_count =
                Cardinality({r \in ReceivedIn(row.account_id, row.id_tx) :
                                ~r.is_change /\ r.memo # NULL})
                + Cardinality({s \in SentIn(row.account_id, row.id_tx) :
                                s.memo # NULL})

\* C8: in v_transactions, has_change of every (account, transaction) row is
\* true if and only if the account owns a change-flagged received note in the
\* transaction; notes of other accounts and notes the transaction spends do
\* not make it true.
C8_HasChangeIffOwnChangeNote ==
    Migrated =>
        \A row \in Transactions :
            row.has_change <=>
                \E r \in ReceivedIn(row.account_id, row.id_tx) : r.is_change

\* C8 witness: a row with has_change, and a row without it for a transaction
\* that spends a change-flagged note of the row's account.
C8_Witness ==
    /\ Migrated
    /\ \E row \in Transactions : row.has_change
    /\ \E row \in Transactions :
          /\ ~row.has_change
          /\ \E r \in SpentIn(row.account_id, row.id_tx) : r.is_change

\* ---------------------------------------------- properties of the backfill
\* The sent notes on the output (tx, oi).
SentOn(sent, tx, oi) == {s \in sent : s.tx = tx /\ s.output_index = oi}

\* The rows the backfill adds according to C2: one for every change-flagged
\* received note with no sent note on its output.
C2_AddedRows ==
    {[tx |-> r.tx, output_pool |-> SaplingPool, output_index |-> r.output_index,
      from_account |-> r.account, to_account |-> Some(r.account),
      to_address |-> NULL, value |-> r.value, memo |-> NULL]
        : r \in {x \in received_notes :
                    x.is_change /\ SentOn(sent_notes, x.tx, x.output_index) = {}}}

\* C2: the backfill step of up adds a sent note for a received note if and
\* only if the note is change-flagged and no sent note existed on its
\* (transaction, output index); the row has the note's transaction, output
\* index and value, from_account = to_account = the owning account and no
\* memo; the step completes for any store contents, and afterwards every
\* change-flagged received note has exactly one sent note on its (transaction,
\* output index).
C2_BackfillKeyedOnOutput ==
    [][(pc = "fixture" /\ pc' = "migrated") =>
          /\ failed' # StmtBackfill
          /\ sent_notes' = sent_notes \cup C2_AddedRows
          /\ \A r \in received_notes :
                r.is_change =>
                    Cardinality(SentOn(sent_notes', r.tx, r.output_index)) = 1
      ]_vars

\* C9: executing the backfill insert again right after an execution adds no
\* sent note: the table is unchanged, and after an execution that succeeded
\* the next one succeeds with no row to add.
C9_BackfillIdempotent ==
    [][(Len(backfill_log) >= 1 /\ Len(backfill_log') = Len(backfill_log) + 1) =>
          /\ sent_notes' = sent_notes
          /\ backfill_log[Len(backfill_log)].ok =>
                backfill_log'[Len(backfill_log')] = [ok |-> TRUE, rows |-> 0]
      ]_vars

\* C9 witness: the insert was executed twice and the first execution added
\* a row.
C9_Witness ==
    /\ Len(backfill_log) = 2
    /\ backfill_log[1].ok
    /\ backfill_log[1].rows >= 1

\* ------------------------------------------------ properties of v_tx_events
\* C3: v_tx_events has exactly one event for every (transaction, output
\* index) that has a received note or a sent note, and none for any other.
C3_OneEventPerOutput ==
    Migrated =>
        \A tx \in Txs, oi \in OutputIndexes :
            Cardinality({e \in Events : e.id_tx = tx /\ e.output_index = oi})
                = IF \/ \E r \in received_notes : r.tx = tx /\ r.output_index = oi
                     \/ SentOn(sent_notes, tx, oi) # {}
                  THEN 1 ELSE 0

\* The events of v_tx_events on the output (tx, oi).
EventsOn(tx, oi) == {e \in Events : e.id_tx = tx /\ e.output_index = oi}

\* An event has is_change exactly when its output is that of a change-flagged
\* received note.
EventChangeFlagResolved ==
    \A e \in Events : e.is_change <=> IsChangeOutput(e.id_tx, e.output_index)

\* Every event of a change output is from the note's owning account to that
\* same account, with no destination address.
ChangeEventSelfToSelf ==
    \A r \in received_notes :
        r.is_change =>
            \A e \in EventsOn(r.tx, r.output_index) :
                /\ e.to_account = Some(r.account)
                /\ e.from_account = Some(r.account)
                /\ e.to_address = NULL

\* Every sent note that is not on a change output has an event that is not
\* change and carries its from_account and destination address.
SentEventCarriesSender ==
    \A s \in sent_notes :
        ~IsChangeOutput(s.tx, s.output_index) =>
            \E e \in EventsOn(s.tx, s.output_index) :
                /\ ~e.is_change
                /\ e.from_account = Some(s.from_account)
                /\ e.to_address = s.to_address

\* C12: after up, an event of v_tx_events has is_change = true if and only if
\* a change-flagged received note exists on its (transaction, output index);
\* the events of such an output have to_account = from_account = the note's
\* owning account and no destination address; a sent note with no
\* change-flagged received note on its output has an event with is_change =
\* false, its from_account and its destination address.
C12_EventChangeResolution ==
    Migrated =>
        /\ EventChangeFlagResolved
        /\ ChangeEventSelfToSelf
        /\ SentEventCarriesSender

\* ------------------------------------------------- properties of the run
OldViews ==
    {<<"v_tx_received", add_transaction_views_MIGRATION_ID>>,
     <<"v_tx_sent", add_transaction_views_MIGRATION_ID>>,
     <<"v_transactions", add_transaction_views_MIGRATION_ID>>}

\* C10: when a statement of up fails, no later statement is executed, up
\* returns an error and the committed store is the store before the run: no
\* backfilled sent note, the old views defined, the new ones absent, and the
\* migration not recorded as applied.
C10_UpAllOrNothing ==
    [][(pc = "fixture" /\ pc' = "migrated" /\ failed' # 0) =>
          /\ result' = "Err"
          /\ executed' = [i \in 1..failed' |-> i]
          /\ sent_notes' = sent_notes
          /\ received_notes' = received_notes
          /\ views' = views
          /\ views' = OldViews
          /\ applied' = applied
          /\ MIGRATION_ID \notin applied'
      ]_vars

\* C10 witness: the last statement of up failed after the backfill had added
\* rows in the transaction; the committed sent_notes table does not have them.
C10_Witness ==
    /\ pc = "migrated"
    /\ result = "Err"
    /\ failed = NumStatements
    /\ executed = <<1, 2, 3, 4, 5, 6>>
    /\ backfill_select(received_notes, sent_notes) # {}
    /\ ~backfill_conflict(received_notes, sent_notes)

\* C11: reverting the migration never succeeds: down changes nothing in the
\* store and returns the failure to the caller as a NotRevertible error of the
\* migration's Result type.
C11_DownReturnsNotRevertible ==
    [][(pc = "migrated" /\ pc' = "reverted") =>
          /\ result' = "Err(NotRevertible)"
          /\ sent_notes' = sent_notes
          /\ received_notes' = received_notes
          /\ views' = views
          /\ applied' = applied
      ]_vars

\* ------------------------------------------------------------ specifications
\* The store after init_wallet_db_internal(.., &[add_transaction_views::MIGRATION_ID]).
Init ==
    /\ received_notes = {}
    /\ sent_notes = {}
    /\ views = {<<"v_tx_received", add_transaction_views_MIGRATION_ID>>,
                <<"v_tx_sent", add_transaction_views_MIGRATION_ID>>,
                <<"v_transactions", add_transaction_views_MIGRATION_ID>>}
    /\ applied = {add_transaction_views_MIGRATION_ID}
    /\ pc = "fixture"
    /\ result = "none"
    /\ executed = <<>>
    /\ failed = 0
    /\ backfill_log = <<>>

\* The fixture, then the migration.
Next ==
    \/ InsertReceivedNote
    \/ MarkSpent
    \/ InsertSentNote
    \/ Migrate

Spec == Init /\ [][Next]_vars

\* The fixture, then the migration on a storage engine that can fail.
NextFaults ==
    \/ InsertReceivedNote
    \/ MarkSpent
    \/ InsertSentNote
    \/ Migrate
    \/ MigrateWithFault

SpecFaults == Init /\ [][NextFaults]_vars

\* The fixture, then the backfill insert executed repeatedly.
NextBackfill ==
    \/ InsertReceivedNote
    \/ MarkSpent
    \/ InsertSentNote
    \/ ExecuteBackfill

SpecBackfill == Init /\ [][NextBackfill]_vars

\* The fixture, the migration, then a request to revert it.
NextRevert ==
    \/ InsertReceivedNote
    \/ MarkSpent
    \/ InsertSentNote
    \/ Migrate
    \/ Revert

SpecRevert == Init /\ [][NextRevert]_vars
====
